---------------------------- MODULE Spec2Model ----------------------------
(***************************************************************************)
(* solar_angle (angle.py): solar elevation and azimuth after NOAA's        *)
(* spreadsheet.  One call is a straight line of assignments; the model     *)
(* runs it one group of assignments at a time, each local of the source    *)
(* being a field of `frame` under the source's name.                       *)
(*                                                                         *)
(* Numbers.  The source computes in IEEE doubles; TLC computes in 32-bit   *)
(* integers.  A real number is held as a fixed-point integer:              *)
(*   - degrees, minutes and arc seconds in units of 1/D  (D = 10^4);       *)
(*   - ratios (sines, cosines, tangents, EEO, var_y) and radians in units  *)
(*     of 1/S  (S = 10^6);                                                 *)
(*   - julian_century in units of 1/J (J = 10^8);                          *)
(* and the three IEEE values that are not numbers, NaN, +inf and -inf,     *)
(* are three integers outside every range a number of the model takes.     *)
(***************************************************************************)
EXTENDS Integers, Sequences, FiniteSets, TLC

VARIABLES pc, args, frame, ret, rounding, history

vars == <<pc, args, frame, ret, rounding, history>>

-----------------------------------------------------------------------------
(* Fixed-point arithmetic *)

S == 10^6
D == 10^4
J == 10^8

NaN == 2^30 + (2^30 - 1)
Inf == NaN - 1
NegInf == -Inf
Unset == -NaN

Abs(x) == IF x < 0 THEN -x ELSE x
Sgn(x) == IF x < 0 THEN -1 ELSE IF x > 0 THEN 1 ELSE 0
IsNum(x) == x # NaN /\ x # Inf /\ x # NegInf

(* TLC evaluates the argument of a function once and the argument of an     *)
(* operator at every use, so the arithmetic is written as functions on Int. *)

\* floor(a*b / K^2) for a, b >= 0, by halves so that no product leaves 32 bits
MulK(a, b, K) ==
    (a \div K) * (b \div K)
    + (((a \div K) * (b % K) + (a % K) * (b \div K) + (((a % K) * (b % K)) \div K)) \div K)

\* product of a value and a ratio (units of 1/S)
MulS[a \in Int, b \in Int] == Sgn(a) * Sgn(b) * MulK(Abs(a), Abs(b), 1000)

\* product of two values in units of 1/D
MulD[a \in Int, b \in Int] == Sgn(a) * Sgn(b) * MulK(Abs(a), Abs(b), 100)

\* <<q, r>> with a*b = q*d + r and 0 <= r < d, by doubling over the bits of b
QRStep[h \in Nat \X Nat, a \in Nat, bit \in Nat, d \in Nat] ==
    <<2 * h[1] + bit * (a \div d) + ((2 * h[2] + bit * (a % d)) \div d),
      (2 * h[2] + bit * (a % d)) % d>>

QR[a \in Nat, b \in Nat, d \in Nat] ==
    IF b = 0 THEN <<0, 0>> ELSE QRStep[QR[a, b \div 2, d], a, b % 2, d]

\* a*b/d, rounded toward zero
MulDiv[a \in Int, b \in Int, d \in Int] ==
    Sgn(a) * Sgn(b) * Sgn(d) * QR[Abs(a), Abs(b), Abs(d)][1]

\* c * julian_century, in the units of c
JMul(c, j) == MulDiv[c, j, J]

\* IEEE division, the quotient in units of 1/S of a's unit over b's:
\* x/0 is an infinity, 0/0 and inf/inf are NaN, x/inf is 0.  A quotient
\* of 2147 or more does not fit 32 bits and is held as an infinity.
FDiv[a \in Int, b \in Int] ==
    IF a = NaN \/ b = NaN THEN NaN
    ELSE IF ~IsNum(a) THEN (IF ~IsNum(b) THEN NaN ELSE IF b < 0 THEN -a ELSE a)
    ELSE IF ~IsNum(b) THEN 0
    ELSE IF b = 0 THEN (IF a = 0 THEN NaN ELSE IF a > 0 THEN Inf ELSE NegInf)
    ELSE IF Abs(a) \div Abs(b) >= 2147
         THEN (IF Sgn(a) * Sgn(b) > 0 THEN Inf ELSE NegInf)
    ELSE IF Abs(b) >= 5 * 10^8 THEN MulDiv[a, 1000, Sgn(b) * (Abs(b) \div 1000)]
    ELSE MulDiv[a, S, b]

\* IEEE product of two ratios: inf * 0 is NaN
FMul[a \in Int, b \in Int] ==
    IF a = NaN \/ b = NaN THEN NaN
    ELSE IF ~IsNum(a) \/ ~IsNum(b)
         THEN (IF a = 0 \/ b = 0 THEN NaN
               ELSE IF Sgn(a) * Sgn(b) > 0 THEN Inf ELSE NegInf)
    ELSE MulS[a, b]

\* IEEE difference: inf - inf is NaN
FSub[a \in Int, b \in Int] ==
    IF a = NaN \/ b = NaN THEN NaN
    ELSE IF ~IsNum(a) THEN (IF a = b THEN NaN ELSE a)
    ELSE IF ~IsNum(b) THEN -b
    ELSE a - b

\* IEEE sum, and product with and quotient by a positive integer
FAdd[a \in Int, b \in Int] == IF b = NaN THEN NaN ELSE FSub[a, -b]
FScale[a \in Int, k \in Int] == IF IsNum(a) THEN a * k ELSE a
FQuot[a \in Int, k \in Int] == IF IsNum(a) THEN a \div k ELSE a

\* IEEE comparisons: every comparison with NaN is false
Gt(a, b) == a # NaN /\ b # NaN /\ a > b
Lt(a, b) == a # NaN /\ b # NaN /\ a < b

\* np.mod(a, m), m > 0: the sign of the divisor, NaN for NaN
Mod[a \in Int, m \in Int] == IF IsNum(a) THEN a % m ELSE NaN

-----------------------------------------------------------------------------
(* numpy's elementary functions, on angles in degrees *)

\* np.deg2rad: degrees (1/D) to radians (1/S); np.rad2deg: the way back
deg2rad[a \in Int] == MulS[a, 1745329]
rad2deg[x \in Int] == MulS[x, 572958]

\* Taylor series on [0, pi/4], x in radians and x2 its square
SinTerms[x \in Int, x2 \in Int] ==
    LET t1 == S - (x2 \div 72)
        t2 == S - (MulS[x2, t1] \div 42)
        t3 == S - (MulS[x2, t2] \div 20)
        t4 == S - (MulS[x2, t3] \div 6)
    IN  MulS[x, t4]

SinSeries[x \in Int] == SinTerms[x, MulS[x, x]]

CosTerms[x2 \in Int] ==
    LET t1 == S - (x2 \div 56)
        t2 == S - (MulS[x2, t1] \div 30)
        t3 == S - (MulS[x2, t2] \div 12)
    IN  S - (MulS[x2, t3] \div 2)

CosSeries[x \in Int] == CosTerms[MulS[x, x]]

\* sine of q degrees, 0 <= q <= 90
SinQ[q \in Int] ==
    IF q <= 45 * D THEN SinSeries[deg2rad[q]] ELSE CosSeries[deg2rad[90 * D - q]]

\* the sine of r degrees, 0 <= r < 360, by the quadrant
SinR[r \in Int] ==
    IF r <= 90 * D THEN SinQ[r]
    ELSE IF r <= 180 * D THEN SinQ[180 * D - r]
    ELSE IF r <= 270 * D THEN -SinQ[r - 180 * D]
    ELSE -SinQ[360 * D - r]

\* np.sin(np.deg2rad(a)), np.cos(np.deg2rad(a)), np.tan(np.deg2rad(a))
Sin[a \in Int] == SinR[a % (360 * D)]

Cos[a \in Int] == Sin[a + 90 * D]

Tan[a \in Int] == FDiv[Sin[a], Cos[a]]

\* of lo and hi, the angle whose cosine is nearer x
Nearer[x \in Int, lo \in Int, hi \in Int, clo \in Int, chi \in Int] ==
    IF Abs(clo - x) <= Abs(chi - x) THEN lo ELSE hi

\* the angle in lo..hi whose cosine is nearest x (the cosine falls on 0..180)
ACosSearch[x \in Int, lo \in Int, hi \in Int] ==
    IF hi - lo <= 1 THEN Nearer[x, lo, hi, Cos[lo], Cos[hi]]
    ELSE IF Cos[(lo + hi) \div 2] >= x THEN ACosSearch[x, (lo + hi) \div 2, hi]
    ELSE ACosSearch[x, lo, (lo + hi) \div 2]

\* np.rad2deg(np.arccos(x)): NaN outside [-1, 1], with no clamping
ArcCos[x \in Int] ==
    IF ~IsNum(x) \/ x > S \/ x < -S THEN NaN ELSE ACosSearch[x, 0, 180 * D]

\* 90 degrees less a, NaN for NaN
Complement[a \in Int] == IF a = NaN THEN NaN ELSE 90 * D - a

\* np.rad2deg(np.arcsin(x))
ArcSin[x \in Int] == Complement[ArcCos[x]]

\* the angle in lo..hi (within 0..90) whose tangent is nearest y/x, for x, y >= 0
ATanSearch[y \in Int, x \in Int, lo \in Int, hi \in Int] ==
    IF hi - lo <= 1 THEN lo
    ELSE IF MulS[Sin[(lo + hi) \div 2], x] <= MulS[Cos[(lo + hi) \div 2], y]
    THEN ATanSearch[y, x, (lo + hi) \div 2, hi]
    ELSE ATanSearch[y, x, lo, (lo + hi) \div 2]

\* the quadrant of (x, y) applied to the first-quadrant angle t
Quadrant[y \in Int, x \in Int, t \in Int] ==
    IF x >= 0 THEN (IF y >= 0 THEN t ELSE -t)
    ELSE (IF y >= 0 THEN 180 * D - t ELSE t - 180 * D)

\* np.rad2deg(np.arctan2(y, x)), in (-180, 180]
ArcTan2[y \in Int, x \in Int] == Quadrant[y, x, ATanSearch[Abs(y), Abs(x), 0, 90 * D]]

-----------------------------------------------------------------------------
(* datetime.datetime(year, month, day) and the difference of two dates *)

IsLeap(y) == y % 4 = 0 /\ (y % 100 # 0 \/ y % 400 = 0)

\* a check of the day against 31 alone
DaysInMonthAll31(y, m) == 31

DaysInMonth(y, m) ==
    IF m = 2 THEN (IF IsLeap(y) THEN 29 ELSE 28)
    ELSE IF m \in {4, 6, 9, 11} THEN 30 ELSE 31

\* the constructor raises ValueError unless this holds
ValidDate(y, m, d) ==
    /\ 1 <= y /\ y <= 9999
    /\ 1 <= m /\ m <= 12
    /\ 1 <= d /\ d <= DaysInMonth(y, m)

RECURSIVE DaysBeforeMonth(_, _)
DaysBeforeMonth(y, m) ==
    IF m = 1 THEN 0 ELSE DaysBeforeMonth(y, m - 1) + DaysInMonth(y, m - 1)

\* the proleptic Gregorian ordinal of a date, 0001-01-01 being day 1
Ordinal(y, m, d) ==
    LET p == y - 1
    IN  p * 365 + (p \div 4) - (p \div 100) + (p \div 400) + DaysBeforeMonth(y, m) + d

\* reference = datetime.datetime(1899, 12, 31)
reference == Ordinal(1899, 12, 31)

-----------------------------------------------------------------------------
(* The quantities of solar_angle, each from the line that assigns it *)

\* julian_day, as <<whole days, minutes>>: the .5 is 720 minutes, and
\* (hour*60+minute)/(24*60) - tz/24 is hour*60 + minute - 60*tz minutes
JulianDay(date, hour, minute, tz) ==
    <<(date - reference) + 2415018 + 1, 720 + (hour * 60 + minute) - 60 * tz>>

\* julian_century = (julian_day - 2451545) / 36525, in units of 1/J
JulianCentury(jd) ==
    MulDiv[(jd[1] - 2451545) * 1440 + jd[2], 25000, 13149]

GeomMeanLongSun(jc) ==
    (2804665 + JMul(360007698 + JMul(3, jc), jc)) % (360 * D)

GeomMeanAnomSun(jc) == 3575291 + JMul(359990503 - JMul(2, jc), jc)

EccentEarthOrbit(jc) == 16709 - JMul(42 + JMul(0, jc), jc)

SunEqOfCtr(jc, GMAS) ==
    MulS[Sin[GMAS], 19146 - JMul(48 + JMul(0, jc), jc)]
    + MulS[Sin[2 * GMAS], 200 - JMul(1, jc)]
    + MulS[Sin[3 * GMAS], 3]

SunRadVector(EEO, STA) ==
    FDiv[MulS[1000001, S - MulS[EEO, EEO]], S + MulS[EEO, Cos[STA]]]

\* 125.04 - 1934.136*julian_century
Omega(jc) == 1250400 - JMul(19341360, jc)

SunAppLong(jc, STL) == STL - 57 - MulS[48, Sin[Omega(jc)]]

MeanObliqEcliptic(jc) ==
    23 * D + ((26 * D
               + ((214480 - JMul(468150 + JMul(6 - JMul(18, jc), jc), jc)) \div 60))
              \div 60)

ObliqCorr(jc, MOE) == MOE + MulS[26, Cos[Omega(jc)]]

SunRtAscen(OC, SAL) == ArcTan2[MulS[Cos[OC], Sin[SAL]], Cos[SAL]]

SunDeclin(OC, SAL) == ArcSin[MulS[Sin[OC], Sin[SAL]]]

Square[t \in Int] == FMul[t, t]

VarY(OC) == Square[Tan[OC \div 2]]

\* ET, in minutes
EqOfTime(GMLS, GMAS, EEO, vy) ==
    4 * rad2deg[MulS[vy, Sin[2 * GMLS]]
                - 2 * MulS[EEO, Sin[GMAS]]
                + 4 * MulS[MulS[EEO, vy], MulS[Sin[GMAS], Cos[2 * GMLS]]]
                - (MulS[MulS[vy, vy], Sin[4 * GMLS]] \div 2)
                - MulS[(MulS[EEO, EEO] * 5) \div 4, Sin[2 * GMAS]]]

\* the argument of the arccos of HAS
HASArg(lat, SD) ==
    FSub[FDiv[Cos[908330], MulS[Cos[lat], Cos[SD]]], FMul[Tan[lat], Tan[SD]]]

\* the arccos of the argument clamped into [-1, 1]
HASunriseClamped(lat, SD) ==
    IF ~IsNum(HASArg(lat, SD)) \/ HASArg(lat, SD) > S THEN ArcCos[S]
    ELSE IF HASArg(lat, SD) < -S THEN ArcCos[-S]
    ELSE ArcCos[HASArg(lat, SD)]

\* HAS, in degrees: NaN when the sun does not rise or does not set
HASunrise(lat, SD) == ArcCos[HASArg(lat, SD)]

\* SN, SrT, SsT as fractions of a day (1/S); SlD in minutes
SolarNoon(lon, ET, tz) == ((720 * D - 4 * lon - ET + tz * 60 * D) * 5) \div 72
SunriseTime(SN, HAS) == FSub[SN, FQuot[FScale[HAS, 20], 72]]
SunsetTime(SN, HAS) == FAdd[SN, FQuot[FScale[HAS, 20], 72]]
SunlightDuration(HAS) == FScale[HAS, 8]

\* the minute taken as a minute of the clock
TrueSolarTimeClock(hour, minute, ET, lon, tz) ==
    Mod[(hour * 60 + (minute % 60)) * D + ET + 4 * lon - 60 * tz * D, 1440 * D]

\* TST, in minutes: (hour*60 + minute)/(24*60) * 1440 is hour*60 + minute
TrueSolarTime(hour, minute, ET, lon, tz) ==
    Mod[(hour * 60 + minute) * D + ET + 4 * lon - 60 * tz * D, 1440 * D]

\* the first branch taken for every TST
HourAngleAdd(TST) == (TST \div 4) + 180 * D

HourAngle(TST) ==
    IF TST \div 4 < 0 THEN (TST \div 4) + 180 * D ELSE (TST \div 4) - 180 * D

SolarZenithAngle(lat, SD, HA) ==
    ArcCos[MulS[Sin[lat], Sin[SD]] + MulS[MulS[Cos[lat], Cos[SD]], Cos[HA]]]

SolarElevationAngle(SZA) == FSub[90 * D, SZA]

\* 1/tan(e), 0.07/tan(e)^3 and 0.000086/tan(e)^5 as powers of 1/tan(e)
CotTerms[c \in Int] ==
    (c - MulS[MulS[MulS[70000, c], c], c]
       + MulS[MulS[MulS[MulS[MulS[86, c], c], c], c], c]) \div 100

CotSeries(SEA) == CotTerms[FDiv[S, Tan[SEA]]]

Polynomial(SEA) ==
    17350000 + MulD[SEA, -5182000 + MulD[SEA, 1034000
                              + MulD[SEA, -127900 + MulD[SEA, 7110]]]]

BelowHorizon(SEA) == FDiv[-207720, Tan[SEA]]

\* the tie at 5 degrees given to the cotangent series
RefractionTieAbove(SEA) ==
    IF Gt(SEA, 85 * D) THEN 0
    ELSE IF ~Lt(SEA, 5 * D) /\ SEA # NaN THEN CotSeries(SEA)
    ELSE IF Gt(SEA, -5750) THEN Polynomial(SEA)
    ELSE BelowHorizon(SEA)

\* AAR before the division by 3600, in arc seconds
ApproxAtmosphericRefraction(SEA) ==
    IF Gt(SEA, 85 * D) THEN 0
    ELSE IF Gt(SEA, 5 * D) THEN CotSeries(SEA)
    ELSE IF Gt(SEA, -5750) THEN Polynomial(SEA)
    ELSE BelowHorizon(SEA)

\* the ratio whose arccos the azimuth takes.  At lat = +-90 the double
\* cos(lat) is 6.1e-17, not 0, and the numerator is rounding residue: the
\* quotient is whatever the last bits of the build's libm make it
AzimuthRatio(lat, SD, SZA) ==
    IF Cos[lat] = 0 /\ IsNum(SZA) THEN rounding
    ELSE IF ~IsNum(SZA) THEN NaN
    ELSE FDiv[MulS[Sin[lat], Cos[SZA]] - Sin[SD], MulS[Cos[lat], Sin[SZA]]]

\* the second branch with 360 for 540, and the tie HA = 0 given to the first
AzimuthTemp360(HA, A) ==
    IF HA > 0 THEN FAdd[A, 180 * D] ELSE FSub[360 * D, A]

AzimuthTempTieFirst(HA, A) ==
    IF HA >= 0 THEN FAdd[A, 180 * D] ELSE FSub[540 * D, A]

\* temp of the two branches
AzimuthTemp(HA, A) ==
    IF HA > 0 THEN FAdd[A, 180 * D] ELSE FSub[540 * D, A]

\* temp returned without the np.mod
SolarAzimuthAngleNoMod(HA, A) == AzimuthTemp(HA, A)

SolarAzimuthAngle(HA, A) == Mod[AzimuthTemp(HA, A), 360 * D]

-----------------------------------------------------------------------------
(* The call *)

\* the locals of solar_angle before any is assigned
EmptyFrame ==
    [date |-> Unset, julian_day |-> <<Unset, Unset>>, julian_century |-> Unset,
     GMLS |-> Unset, GMAS |-> Unset, EEO |-> Unset, SEC |-> Unset,
     STL |-> Unset, STA |-> Unset, SRV |-> Unset, SAL |-> Unset,
     MOE |-> Unset, OC |-> Unset, SRA |-> Unset, SD |-> Unset,
     var_y |-> Unset, ET |-> Unset, HAS |-> Unset, SN |-> Unset,
     SrT |-> Unset, SsT |-> Unset, SlD |-> Unset, TST |-> Unset,
     HA |-> Unset, SZA |-> Unset, SEA |-> Unset, radSEA |-> Unset,
     AAR |-> Unset, temp |-> Unset, SAA |-> Unset]

\* what a call hands back: nothing yet, a ValueError, or the pair
NoResult == <<"none", Unset, Unset>>
Raised   == <<"ValueError", Unset, Unset>>
Returned(elevation, azimuth) == <<"return", elevation, azimuth>>

\* line 48: date = datetime.datetime(year, month, day) raises or gives the date
MakeDate ==
    /\ pc = "date"
    /\ IF ValidDate(args.year, args.month, args.day)
       THEN /\ frame' = [frame EXCEPT !.date = Ordinal(args.year, args.month, args.day)]
            /\ pc' = "julian"
            /\ ret' = ret
       ELSE /\ pc' = "raised"
            /\ ret' = Raised
            /\ frame' = EmptyFrame
    /\ UNCHANGED <<args, rounding, history>>

\* lines 49-51
Julian ==
    /\ pc = "julian"
    /\ LET jd == JulianDay(frame.date, args.hour, args.minute, args.tz)
       IN  frame' = [frame EXCEPT !.julian_day = jd,
                                  !.julian_century = JulianCentury(jd)]
    /\ pc' = "mean"
    /\ UNCHANGED <<args, ret, rounding, history>>

\* lines 53-55
MeanElements ==
    /\ pc = "mean"
    /\ frame' = [frame EXCEPT !.GMLS = GeomMeanLongSun(frame.julian_century),
                              !.GMAS = GeomMeanAnomSun(frame.julian_century),
                              !.EEO = EccentEarthOrbit(frame.julian_century)]
    /\ pc' = "center"
    /\ UNCHANGED <<args, ret, rounding, history>>

\* lines 56-62
EquationOfCenter ==
    /\ pc = "center"
    /\ LET sec == SunEqOfCtr(frame.julian_century, frame.GMAS)
           stl == frame.GMLS + sec
           sta == frame.GMAS + sec
       IN  frame' = [frame EXCEPT !.SEC = sec, !.STL = stl, !.STA = sta,
                                  !.SRV = SunRadVector(frame.EEO, sta),
                                  !.SAL = SunAppLong(frame.julian_century, stl)]
    /\ pc' = "obliquity"
    /\ UNCHANGED <<args, ret, rounding, history>>

\* lines 63-69
Obliquity ==
    /\ pc = "obliquity"
    /\ LET moe == MeanObliqEcliptic(frame.julian_century)
           oc  == ObliqCorr(frame.julian_century, moe)
       IN  frame' = [frame EXCEPT !.MOE = moe, !.OC = oc,
                                  !.SRA = SunRtAscen(oc, frame.SAL),
                                  !.SD = SunDeclin(oc, frame.SAL),
                                  !.var_y = VarY(oc)]
    /\ pc' = "eqtime"
    /\ UNCHANGED <<args, ret, rounding, history>>

\* lines 70-75
EquationOfTime ==
    /\ pc = "eqtime"
    /\ frame' = [frame EXCEPT !.ET = EqOfTime(frame.GMLS, frame.GMAS, frame.EEO, frame.var_y)]
    /\ pc' = "sunrise"
    /\ UNCHANGED <<args, ret, rounding, history>>

\* lines 76-83: np.arccos outside [-1, 1] warns and gives NaN; nothing is raised
SunriseSunset ==
    /\ pc = "sunrise"
    /\ LET has == HASunrise(args.lat, frame.SD)
           sn  == SolarNoon(args.lon, frame.ET, args.tz)
       IN  frame' = [frame EXCEPT !.HAS = has, !.SN = sn,
                                  !.SrT = SunriseTime(sn, has),
                                  !.SsT = SunsetTime(sn, has),
                                  !.SlD = SunlightDuration(has)]
    /\ pc' = "tst"
    /\ UNCHANGED <<args, ret, rounding, history>>

\* line 84
SolarTime ==
    /\ pc = "tst"
    /\ frame' = [frame EXCEPT !.TST = TrueSolarTime(args.hour, args.minute, frame.ET,
                                                    args.lon, args.tz)]
    /\ pc' = "ha"
    /\ UNCHANGED <<args, ret, rounding, history>>

\* lines 86-89
HourAngleStep ==
    /\ pc = "ha"
    /\ frame' = [frame EXCEPT !.HA = HourAngle(frame.TST)]
    /\ pc' = "zenith"
    /\ UNCHANGED <<args, ret, rounding, history>>

\* lines 91-95
Zenith ==
    /\ pc = "zenith"
    /\ LET sza == SolarZenithAngle(args.lat, frame.SD, frame.HA)
       IN  frame' = [frame EXCEPT !.SZA = sza, !.SEA = SolarElevationAngle(sza)]
    /\ pc' = "refraction"
    /\ UNCHANGED <<args, ret, rounding, history>>

\* lines 97-105: AAR in arc seconds, by the branch SEA selects
Refraction ==
    /\ pc = "refraction"
    /\ frame' = [frame EXCEPT !.radSEA = IF IsNum(frame.SEA) THEN deg2rad[frame.SEA]
                                         ELSE frame.SEA,
                              !.AAR = ApproxAtmosphericRefraction(frame.SEA)]
    /\ pc' = "correct"
    /\ UNCHANGED <<args, ret, rounding, history>>

\* lines 106-108: SEC, the equation of center until here, becomes the elevation
Correct ==
    /\ pc = "correct"
    /\ LET aar == FQuot[frame.AAR, 3600]
       IN  frame' = [frame EXCEPT !.AAR = aar, !.SEC = FAdd[frame.SEA, aar]]
    /\ pc' = "azimuth"
    /\ UNCHANGED <<args, ret, rounding, history>>

\* lines 110-121
Azimuth ==
    /\ pc = "azimuth"
    /\ LET A == ArcCos[AzimuthRatio(args.lat, frame.SD, frame.SZA)]
       IN  frame' = [frame EXCEPT !.temp = AzimuthTemp(frame.HA, A),
                                  !.SAA = SolarAzimuthAngle(frame.HA, A)]
    /\ pc' = "return"
    /\ UNCHANGED <<args, ret, rounding, history>>

\* a return that leaves the locals behind
ReturnKeepingLocals ==
    /\ pc = "return"
    /\ ret' = <<"return", frame.SEC, frame.SAA>>
    /\ frame' = frame
    /\ pc' = "done"
    /\ UNCHANGED <<args, rounding>>

\* line 123: the pair goes to the caller and the locals are gone
Return ==
    /\ pc = "return"
    /\ ret' = Returned(frame.SEC, frame.SAA)
    /\ frame' = EmptyFrame
    /\ pc' = "done"
    /\ UNCHANGED <<args, rounding>>

\* the next call: fresh locals, nothing kept from the call before
Call(inputs) ==
    /\ pc \in {"done", "raised"}
    /\ \E a \in inputs : args' = a
    /\ frame' = EmptyFrame
    /\ ret' = NoResult
    /\ pc' = "date"
    /\ UNCHANGED rounding

Body ==
    \/ MakeDate
    \/ Julian
    \/ MeanElements
    \/ EquationOfCenter
    \/ Obliquity
    \/ EquationOfTime
    \/ SunriseSunset
    \/ SolarTime
    \/ HourAngleStep
    \/ Zenith
    \/ Refraction
    \/ Correct
    \/ Azimuth

Arg(y, mo, d, h, mi, tz, lat, lon) ==
    [year |-> y, month |-> mo, day |-> d, hour |-> h, minute |-> mi,
     tz |-> tz, lat |-> lat, lon |-> lon]

-----------------------------------------------------------------------------
(* The calls the model makes *)

\* the largest hour and minute passed (beyond 23 and 59: neither is checked),
\* the calls a caller repeats, and the samples either side of a boundary
MaxHour == 25
MaxMinute == 61
MaxCalls == 2
NearBoundary == 2

\* what the quotient at the poles may come to: out of the domain, 0, +-0.988
Roundings == {Inf, 0, 988000, -988000}

\* ET at an instant, by the lines 48-75
ETof(y, mo, d, h, mi, tz) ==
    LET jc   == JulianCentury(JulianDay(Ordinal(y, mo, d), h, mi, tz))
        gmls == GeomMeanLongSun(jc)
        gmas == GeomMeanAnomSun(jc)
        oc   == ObliqCorr(jc, MeanObliqEcliptic(jc))
    IN  EqOfTime(gmls, gmas, EccentEarthOrbit(jc), VarY(oc))

\* the longitude where the true solar time at h:00 UTC is m minutes
LonOfTST(y, mo, d, h, m) == (m * D - h * 60 * D - ETof(y, mo, d, h, 0, 0)) \div 4

Dates == {<<2020, 6, 21>>, <<2020, 12, 21>>, <<2021, 3, 20>>}

BadDates == {<<2020, 2, 30>>, <<2021, 2, 29>>, <<2021, 13, 1>>, <<2021, 0, 10>>,
             <<2021, 4, 31>>, <<2021, 1, 0>>, <<0, 1, 1>>}

Hours == {0, 6, 12, 18, MaxHour}

Latitudes == {-90, -45, 0, 23, 67, 90}

ArgSet ==
    {Arg(dt[1], dt[2], dt[3], h, 0, 0, la * D, 0) :
        dt \in Dates, h \in Hours, la \in Latitudes}
    \cup {Arg(dt[1], dt[2], dt[3], 12, 0, 0, 40 * D, 0) : dt \in BadDates}
    \cup {Arg(2020, 6, 20, 12, 0, -7, 40 * D, -105 * D),
          Arg(2020, 2, 29, 23, MaxMinute, 9, 35 * D, 139 * D),
          Arg(2021, 3, 20, -1, -30, 0, -45 * D, 0),
          Arg(2021, 3, 20, 0, 0, 0, 40 * D, LonOfTST(2021, 3, 20, 0, 0)),
          Arg(2021, 3, 20, 12, 0, 0, 50 * D, LonOfTST(2021, 3, 20, 12, 720)),
          Arg(2021, 3, 20, 12, 0, 0, -23 * D, LonOfTST(2021, 3, 20, 12, 720))}

\* the calls a caller repeats: four spellings of 02:00, a minute later, the
\* pole in the polar night, a date that is none
RepeatArgs ==
    {Arg(2020, 6, 21, 2, 0, 0, 40 * D, 0),
     Arg(2020, 6, 21, 1, 60, 0, 40 * D, 0),
     Arg(2020, 6, 21, MaxHour, 120 - 60 * MaxHour, 0, 40 * D, 0),
     Arg(2020, 6, 21, 2, 1, 0, 40 * D, 0),
     Arg(2020, 12, 21, 0, 0, 0, 90 * D, 0),
     Arg(2020, 2, 30, 2, 0, 0, 40 * D, 0)}

\* raw elevations: every whole degree, and the neighbours of 85, 5 and -0.575
Elevations ==
    {e * D : e \in -90..90}
    \cup {b + k : b \in {85 * D, 5 * D, -5750}, k \in -NearBoundary..NearBoundary}

Init ==
    /\ pc = "date"
    /\ args \in ArgSet
    /\ frame = EmptyFrame
    /\ ret = NoResult
    /\ rounding \in Roundings
    /\ history = {}

Next ==
    \/ Body /\ UNCHANGED history
    \/ Return /\ UNCHANGED history
    \/ Call(ArgSet) /\ UNCHANGED history

Spec == Init /\ [][Next]_vars

\* a caller that repeats calls and keeps what each handed back
InitCalls ==
    /\ pc = "date"
    /\ args \in RepeatArgs
    /\ frame = EmptyFrame
    /\ ret = NoResult
    /\ rounding \in Roundings
    /\ history = {}

NextCalls ==
    \/ Body /\ UNCHANGED history
    \/ Return /\ UNCHANGED history
    \/ /\ Cardinality(history) < MaxCalls
       /\ Call(RepeatArgs)
       /\ history' = history \cup {<<args, ret>>}

SpecCalls == InitCalls /\ [][NextCalls]_vars

\* the refraction alone, on every raw elevation of Elevations
InitRefraction ==
    /\ pc = "refraction"
    /\ args = Arg(2020, 6, 20, 12, 0, -7, 40 * D, -105 * D)
    /\ \E e \in Elevations : frame = [EmptyFrame EXCEPT !.SZA = 90 * D - e, !.SEA = e]
    /\ ret = NoResult
    /\ rounding = Inf
    /\ history = {}

NextRefraction ==
    \/ Refraction
    \/ Correct

SpecRefraction == InitRefraction /\ [][NextRefraction]_vars

-----------------------------------------------------------------------------
(* The claims *)

\* C1: whenever a call returns a pair without NaN, the azimuth is in
\* [0, 360) and the refraction-corrected elevation in [-90, 90], whichever
\* hour-angle, refraction and azimuth branch was taken
OutputRanges ==
    (pc = "done" /\ ret[1] = "return")
        => /\ IsNum(ret[3]) => 0 <= ret[3] /\ ret[3] < 360 * D
           /\ IsNum(ret[2]) => -90 * D <= ret[2] /\ ret[2] <= 90 * D

\* C1 witness: a pair returned from the second azimuth branch (540 - A, which
\* only the np.mod brings under 360) and the cotangent-series refraction
OutputRangesWitness ==
    /\ pc = "return"
    /\ frame.HA < 0
    /\ frame.temp > 360 * D /\ IsNum(frame.temp)
    /\ frame.SEA > 5 * D /\ frame.SEA <= 85 * D
    /\ IsNum(frame.SEC) /\ IsNum(frame.SAA)

\* C2 as stated: at lat = 90 with the sun below the horizon all day, the
\* pair about to be returned carries the NaN of HAS, in the elevation or in
\* the azimuth
HASDomainSurfaced ==
    (pc = "return" /\ args.lat = 90 * D /\ frame.SD < -8330)
        => ~IsNum(frame.SEC) \/ ~IsNum(frame.SAA)

\* C2 as amended: at lat = 90 with the sun below the horizon all day, HAS is
\* NaN without clamping and so are SrT, SsT and SlD, nothing is raised, and
\* none of them enters the pair: the elevation returned is the number
\* SEA + AAR, and the azimuth is NaN or a number in [0, 360)
HASDroppedAtPole ==
    (pc = "return" /\ args.lat = 90 * D /\ frame.SD < -8330)
        => /\ frame.HAS = NaN
           /\ frame.SrT = NaN /\ frame.SsT = NaN /\ frame.SlD = NaN
           /\ IsNum(frame.SEA) /\ IsNum(frame.AAR)
           /\ frame.SEC = frame.SEA + frame.AAR
           /\ frame.SEC < 0
           /\ frame.SAA = NaN \/ (0 <= frame.SAA /\ frame.SAA < 360 * D)

\* C2 witness: the polar night at the pole, about to return two numbers
HASDroppedWitness ==
    /\ pc = "return"
    /\ args.lat = 90 * D /\ frame.SD < -8330
    /\ frame.HAS = NaN
    /\ IsNum(frame.SEC) /\ IsNum(frame.SAA)

\* C3: a year/month/day that is no calendar date makes the call fail at the
\* date construction: no local is assigned, neither the Julian day nor any
\* later quantity, and no pair is returned
InvalidDateFails ==
    (<<args.year, args.month, args.day>> \in BadDates)
        => /\ pc \in {"date", "raised"}
           /\ \A f \in DOMAIN frame :
                 frame[f] = IF f = "julian_day" THEN <<Unset, Unset>> ELSE Unset
           /\ ret[1] # "return"
           /\ pc = "raised" => ret = <<"ValueError", Unset, Unset>>

\* C3 witness: the call for February 30 has raised
InvalidDateWitness ==
    /\ pc = "raised"
    /\ args.month = 2 /\ args.day = 30
    /\ ret[1] = "ValueError"

\* C4 as stated: at each of the raw elevations 85, 5 and -0.575 the refraction
\* of the branch at the boundary and that of the branch just above it (one
\* unit of 1/D degree higher) differ by at most 0.001 degree, which is 3.6
\* arc seconds
RefractionContinuous ==
    (pc = "correct" /\ frame.SEA \in {85 * D, 5 * D, -5750})
        => Abs(frame.AAR - ApproxAtmosphericRefraction(frame.SEA + 1))
               <= (3600 * D) \div 1000

\* C5: with the same arccos A, the azimuth of an hour angle and the azimuth
\* of its negative sum to 0 modulo 360
AzimuthMirror ==
    (pc = "return" /\ frame.HA # 0 /\ IsNum(frame.SAA))
        => LET A == ArcCos[AzimuthRatio(args.lat, frame.SD, frame.SZA)]
           IN  /\ IsNum(SolarAzimuthAngle(-frame.HA, A))
               /\ (frame.SAA + SolarAzimuthAngle(-frame.HA, A)) % (360 * D) = 0

\* C5 witness: an afternoon azimuth west of south, whose mirror is a morning
\* azimuth east of south
AzimuthMirrorWitness ==
    /\ pc = "return"
    /\ frame.HA > 0
    /\ IsNum(frame.SAA) /\ frame.SAA > 180 * D
    /\ Abs(args.lat) < 90 * D

\* C6: hour and minute are not checked and count only through
\* hour*60 + minute: every call with a calendar date returns a pair, whatever
\* the hour and the minute, and two calls that agree on year, month, day, tz,
\* lat, lon and on hour*60 + minute hand back the same result
TotalMinutesOnly ==
    LET calls == history \cup (IF pc \in {"done", "raised"} THEN {<<args, ret>>} ELSE {})
    IN  /\ \A c \in calls :
              (<<c[1].year, c[1].month, c[1].day>> \notin BadDates) => c[2][1] = "return"
        /\ \A c1, c2 \in calls :
              (/\ c1[1].year = c2[1].year /\ c1[1].month = c2[1].month
               /\ c1[1].day = c2[1].day /\ c1[1].tz = c2[1].tz
               /\ c1[1].lat = c2[1].lat /\ c1[1].lon = c2[1].lon
               /\ c1[1].hour * 60 + c1[1].minute = c2[1].hour * 60 + c2[1].minute)
                  => c1[2] = c2[2]

\* C6 witness: 02:00 and the same minute written with an hour beyond 23 and
\* a negative minute have both returned, with numbers
TotalMinutesWitness ==
    \E c1, c2 \in history :
        /\ c1[1].hour = 2 /\ c1[1].minute = 0
        /\ c2[1].hour > 23 /\ c2[1].minute < 0
        /\ c2[1].hour * 60 + c2[1].minute = 120
        /\ c1[2][1] = "return" /\ IsNum(c1[2][2]) /\ IsNum(c1[2][3])
        /\ c2[2][1] = "return"

HourAngleHalfOpen ==
    (frame.HA # Unset) => (frame.HA > -180 * D /\ frame.HA <= 180 * D)

\* C8 as amended: TST is the time of day wrapped into [0, 1440], HA is
\* TST/4 + 180 when TST/4 < 0 and TST/4 - 180 otherwise, which after the
\* wrapping is always TST/4 - 180, and HA is in [-180, 180], -180 at TST = 0
HourAngleClosed ==
    (frame.HA # Unset)
        => /\ 0 <= frame.TST /\ frame.TST <= 1440 * D
           /\ (frame.TST - ((args.hour * 60 + args.minute) * D + frame.ET
                            + 4 * args.lon - 60 * args.tz * D)) % (1440 * D) = 0
           /\ frame.HA = IF frame.TST \div 4 < 0 THEN (frame.TST \div 4) + 180 * D
                         ELSE (frame.TST \div 4) - 180 * D
           /\ frame.HA = (frame.TST \div 4) - 180 * D
           /\ -180 * D <= frame.HA /\ frame.HA <= 180 * D
           /\ frame.TST = 0 => frame.HA = -180 * D

\* C8 witness: a true solar time of exactly 0 has given its hour angle
HourAngleWitness ==
    /\ frame.TST = 0
    /\ frame.HA = -180 * D

\* C9: the refraction is the formula the raw elevation e selects by strict
\* upper comparisons (e > 85: 0; 5 < e <= 85: the cotangent series;
\* -0.575 < e <= 5: the polynomial; e <= -0.575: -20.772/tan(e)), so that 85,
\* 5 and -0.575 go to the lower formula; it is divided by 3600 and added to e
RefractionBranches ==
    LET e == frame.SEA
        arcsec == IF e > 85 * D THEN 0
                  ELSE IF 5 * D < e /\ e <= 85 * D THEN CotSeries(e)
                  ELSE IF -5750 < e /\ e <= 5 * D THEN Polynomial(e)
                  ELSE BelowHorizon(e)
    IN  /\ pc = "correct" => frame.AAR = arcsec
        /\ pc = "azimuth" => /\ frame.AAR = FQuot[arcsec, 3600]
                             /\ frame.SEC = e + frame.AAR
                             /\ e > 85 * D => frame.SEC = e

\* C9 witness: at exactly 5 degrees the polynomial has been applied, which
\* the cotangent series does not equal there
RefractionTieWitness ==
    /\ pc = "correct"
    /\ frame.SEA = 5 * D
    /\ frame.AAR = Polynomial(5 * D)
    /\ frame.AAR # CotSeries(5 * D)

\* C10: for HA > 0 the azimuth is (A + 180) mod 360, in [180, 360) or 0, and
\* for HA <= 0, HA = 0 included, it is (540 - A) mod 360, in [0, 180], A
\* being the arccos of the ratio in degrees, in [0, 180]
AzimuthBranches ==
    (pc = "return" /\ IsNum(frame.SAA))
        => LET A == ArcCos[AzimuthRatio(args.lat, frame.SD, frame.SZA)]
           IN  /\ 0 <= A /\ A <= 180 * D
               /\ frame.HA > 0 => /\ frame.SAA = (A + 180 * D) % (360 * D)
                                  /\ frame.SAA >= 180 * D \/ frame.SAA = 0
               /\ frame.HA <= 0 => /\ frame.SAA = (540 * D - A) % (360 * D)
                                   /\ 0 <= frame.SAA /\ frame.SAA <= 180 * D

\* C10 witness: an hour angle of exactly 0 away from the poles, with an
\* azimuth that the first branch would not have given
AzimuthTieWitness ==
    /\ pc = "return"
    /\ frame.HA = 0
    /\ Abs(args.lat) < 90 * D
    /\ IsNum(frame.SAA)
    /\ frame.SAA = (frame.temp) % (360 * D)
    /\ frame.SAA # (720 * D - frame.temp) % (360 * D)

=============================================================================
